---------------------------- MODULE Spec2Model ----------------------------
(***************************************************************************)
(* Traffic-Equilibrium: the Frank-Wolfe assignment solver                  *)
(* (src/algo/algorithms.py) on the TrafficGraph model and its expression   *)
(* sandbox (src/graphdata/graph_model.py).                                 *)
(*                                                                         *)
(* Numbers.  The solver computes with floats built from the demands, the   *)
(* cost expressions and phi = (sqrt(5)-1)/2.  The model computes the same  *)
(* quantities exactly, in the ring Z[phi][1/2]: a number is a record       *)
(* [x, y, k] standing for (x + y*phi) / 2^k, with phi*phi = 1 - phi.       *)
(* Coefficients are kept within Width; a result that would leave it is     *)
(* the value NaR, and a run that meets NaR is not explored further.        *)
(***************************************************************************)
EXTENDS Integers, Sequences, FiniteSets, TLC

(***************************************************************************)
(* Exact arithmetic                                                        *)
(***************************************************************************)
Width == 2^30

NaR == [x |-> 0, y |-> 0, k |-> -1]

IsR(a) == a.k >= 0

Abs(n) == IF n < 0 THEN -n ELSE n

Max2(m, n) == IF m < n THEN n ELSE m

Mag(a) == Max2(Abs(a.x), Abs(a.y))

Pow2(n) == 2^n

RECURSIVE Norm(_)
Norm(a) ==
    IF a.k > 0 /\ a.x % 2 = 0 /\ a.y % 2 = 0
    THEN Norm([x |-> a.x \div 2, y |-> a.y \div 2, k |-> a.k - 1])
    ELSE a

R(n) == [x |-> n, y |-> 0, k |-> 0]

Zero == R(0)

One == R(1)

PHI == [x |-> 0, y |-> 1, k |-> 0]

\* a * 2^s as coefficients over the denominator 2^(a.k + s)
Lift(a, s) ==
    IF s = 0 \/ ~IsR(a) THEN a
    ELSE IF a.x = 0 /\ a.y = 0 THEN [x |-> 0, y |-> 0, k |-> a.k + s]
    ELSE IF s > 29 THEN NaR
    ELSE IF Mag(a) > (Width \div 2) \div Pow2(s) THEN NaR
    ELSE [x |-> a.x * Pow2(s), y |-> a.y * Pow2(s), k |-> a.k + s]

\* the sum of two numbers over the same denominator
add_lifted(la, lb) ==
    IF ~IsR(la) \/ ~IsR(lb) \/ Mag(la) > Width \div 2 \/ Mag(lb) > Width \div 2 THEN NaR
    ELSE Norm([x |-> la.x + lb.x, y |-> la.y + lb.y, k |-> la.k])

RAdd(a, b) ==
    IF ~IsR(a) \/ ~IsR(b) THEN NaR
    ELSE IF a.k = b.k THEN add_lifted(a, b)
    ELSE IF a.k < b.k THEN add_lifted(Lift(a, b.k - a.k), b)
    ELSE add_lifted(a, Lift(b, a.k - b.k))

RNeg(a) == IF ~IsR(a) THEN NaR ELSE [x |-> -a.x, y |-> -a.y, k |-> a.k]

RSub(a, b) == RAdd(a, RNeg(b))

RMul(a, b) ==
    IF ~IsR(a) \/ ~IsR(b) THEN NaR
    ELSE IF (a.x = 0 /\ a.y = 0) \/ (b.x = 0 /\ b.y = 0) THEN Zero
    ELSE IF Mag(b) > (IF a.y = 0 \/ b.y = 0 THEN Width ELSE Width \div 3) \div Mag(a)
              \/ a.k + b.k > 60 THEN NaR
    ELSE Norm([x |-> a.x * b.x + a.y * b.y,
               y |-> a.x * b.y + a.y * b.x - a.y * b.y,
               k |-> a.k + b.k])

RHalf(a) == IF ~IsR(a) THEN NaR ELSE Norm([x |-> a.x, y |-> a.y, k |-> a.k + 1])

\* m > n*phi for naturals m, n (phi is irrational: equality only at 0, 0)
RECURSIVE GtPhi(_, _)
GtPhi(m, n) ==
    IF m = 0 THEN FALSE
    ELSE IF m >= n THEN TRUE
    ELSE ~GtPhi(n - m, m)

\* x + y*phi > 0
PosZ(x, y) ==
    IF x >= 0 /\ y >= 0 THEN x > 0 \/ y > 0
    ELSE IF x <= 0 /\ y <= 0 THEN FALSE
    ELSE IF x > 0 THEN GtPhi(x, -y)
    ELSE ~GtPhi(-x, y)

RPos(a) == IsR(a) /\ PosZ(a.x, a.y)

RIsZero(a) == IsR(a) /\ a.x = 0 /\ a.y = 0

RNonNeg(a) == RPos(a) \/ RIsZero(a)

RLess(a, b) == RPos(RSub(b, a))

RLeq(a, b) == RNonNeg(RSub(b, a))

\* a and b can be compared: their difference is within the width
Comparable(a, b) == IsR(RSub(b, a))

\* a / b, exact when b is plus or minus a power of two
IsPow2(n) == \E j \in 0..30 : n = Pow2(j)

Log2(n) == CHOOSE j \in 0..30 : n = Pow2(j)

\* up / 2^s
shift_down(up, s) ==
    IF ~IsR(up) \/ up.k + s > 60 THEN NaR
    ELSE Norm([x |-> up.x, y |-> up.y, k |-> up.k + s])

RDiv(a, b) ==
    IF ~IsR(a) \/ ~IsR(b) \/ b.y # 0 \/ ~IsPow2(Abs(b.x)) THEN NaR
    ELSE shift_down(RMul(a, [x |-> IF b.x < 0 THEN -Pow2(b.k) ELSE Pow2(b.k),
                             y |-> 0, k |-> 0]),
                    Log2(Abs(b.x)))

(***************************************************************************)
(* Python values of an expression's evaluation                             *)
(***************************************************************************)
PyNum(r) == [t |-> "num", v |-> r]

PyStr(s) == [t |-> "str", s |-> s]

PyFn(name) == [t |-> "fn", name |-> name]

PyTuple == [t |-> "tuple"]

PyNone == [t |-> "none"]

PyExc(kind) == [t |-> "exc", kind |-> kind]

(***************************************************************************)
(* Syntax trees as ast.parse(expr, mode='eval') builds them.  A node is a  *)
(* tuple whose first element is its class name, followed by its fields in  *)
(* _fields order.                                                          *)
(***************************************************************************)
Load == <<"Load">>

Constant(value) == <<"Constant", value>>

Num(n) == Constant(PyNum(R(n)))

Name(id) == <<"Name", id, Load>>

BinOp(left, op, right) == <<"BinOp", left, <<op>>, right>>

UnaryOp(op, operand) == <<"UnaryOp", <<op>>, operand>>

Call(func, args) == <<"Call", func, args, <<>>>>

Attribute(value, attr) == <<"Attribute", value, attr, Load>>

Expression(body) == <<"Expression", body>>

None == "<None>"

\* the expression texts of the model, with the tree ast.parse returns
ParseTable ==
    [e \in {"1.0", "1", "2", "f", "3 - 2*0**f", "1/abs(f-2)", "1 + 0.5*f",
            "1/f", "log(f)", "max(f, 1)", "-f", "+f", "f % 2", "2**f", "pi",
            "min", "f(1)", "(1, 2)", "'x'", "None",
            "__import__('os')", "f.__class__", "open('x')", "x + 1",
            "f // 2", "f < 1", "f[0]", "lambda: 1", "f and 1",
            "1 if f else 2", "[f]", "max(f, key=abs)", "~f"} |->
      CASE e = "1.0" -> Num(1)
        [] e = "1" -> Num(1)
        [] e = "2" -> Num(2)
        [] e = "f" -> Name("f")
        [] e = "3 - 2*0**f" ->
             BinOp(Num(3), "Sub", BinOp(Num(2), "Mult", BinOp(Num(0), "Pow", Name("f"))))
        [] e = "1/abs(f-2)" ->
             BinOp(Num(1), "Div", Call(Name("abs"), <<BinOp(Name("f"), "Sub", Num(2))>>))
        [] e = "1 + 0.5*f" ->
             BinOp(Num(1), "Add", BinOp(Constant(PyNum(RHalf(One))), "Mult", Name("f")))
        [] e = "1/f" -> BinOp(Num(1), "Div", Name("f"))
        [] e = "log(f)" -> Call(Name("log"), <<Name("f")>>)
        [] e = "max(f, 1)" -> Call(Name("max"), <<Name("f"), Num(1)>>)
        [] e = "-f" -> UnaryOp("USub", Name("f"))
        [] e = "+f" -> UnaryOp("UAdd", Name("f"))
        [] e = "f % 2" -> BinOp(Name("f"), "Mod", Num(2))
        [] e = "2**f" -> BinOp(Num(2), "Pow", Name("f"))
        [] e = "pi" -> Name("pi")
        [] e = "min" -> Name("min")
        [] e = "f(1)" -> Call(Name("f"), <<Num(1)>>)
        [] e = "(1, 2)" -> <<"Tuple", <<Num(1), Num(2)>>, Load>>
        [] e = "'x'" -> Constant(PyStr("x"))
        [] e = "None" -> Constant(PyNone)
        [] e = "__import__('os')" -> Call(Name("__import__"), <<Constant(PyStr("os"))>>)
        [] e = "f.__class__" -> Attribute(Name("f"), "__class__")
        [] e = "open('x')" -> Call(Name("open"), <<Constant(PyStr("x"))>>)
        [] e = "x + 1" -> BinOp(Name("x"), "Add", Num(1))
        [] e = "f // 2" -> BinOp(Name("f"), "FloorDiv", Num(2))
        [] e = "f < 1" -> <<"Compare", Name("f"), <<<<"Lt">>>>, <<Num(1)>>>>
        [] e = "f[0]" -> <<"Subscript", Name("f"), Num(0), Load>>
        [] e = "lambda: 1" -> <<"Lambda", <<"arguments">>, Num(1)>>
        [] e = "f and 1" -> <<"BoolOp", <<"And">>, <<Name("f"), Num(1)>>>>
        [] e = "1 if f else 2" -> <<"IfExp", Name("f"), Num(1), Num(2)>>
        [] e = "[f]" -> <<"List", <<Name("f")>>, Load>>
        [] e = "max(f, key=abs)" ->
             <<"Call", Name("max"), <<Name("f")>>, <<<<"keyword", "key", Name("abs")>>>>>>
        [] e = "~f" -> UnaryOp("Invert", Name("f"))]

\* texts that are not an expression: ast.parse raises SyntaxError
NotExpressions == {"1 +", "f = 1", "import os"}

\* a strip that leaves the text as it is
no_strip(s) == s

\* str.strip of the texts of the model
Strip(s) ==
    CASE s = "   " -> ""
      [] s = " f " -> "f"
      [] OTHER -> s

Texts == DOMAIN ParseTable \cup NotExpressions \cup {"", "   ", " f "}

(***************************************************************************)
(* The expression sandbox: compile_cost_expr and the compiled cost(f)      *)
(***************************************************************************)
SAFE_MATH ==
    [n \in {"sqrt", "log", "exp", "sin", "cos", "tan", "abs", "min", "max", "pi", "e"} |->
       IF n \in {"pi", "e"} THEN PyNum(NaR) ELSE PyFn(n)]

allowed_nodes ==
    {"Expression", "Call", "Name", "Load", "BinOp", "UnaryOp", "Num", "Constant",
     "Add", "Sub", "Mult", "Div", "Pow", "Mod", "USub", "UAdd", "Tuple"}

\* ast.iter_child_nodes: the node-valued fields, in _fields order
iter_child_nodes(n) ==
    CASE n[1] = "Expression" -> <<n[2]>>
      [] n[1] = "Name" -> <<n[3]>>
      [] n[1] = "BinOp" -> <<n[2], n[3], n[4]>>
      [] n[1] = "UnaryOp" -> <<n[2], n[3]>>
      [] n[1] = "Call" -> <<n[2]>> \o n[3] \o n[4]
      [] n[1] = "Attribute" -> <<n[2], n[4]>>
      [] n[1] \in {"Tuple", "List"} -> n[2] \o <<n[3]>>
      [] n[1] = "Compare" -> <<n[2]>> \o n[3] \o n[4]
      [] n[1] = "Subscript" -> <<n[2], n[3], n[4]>>
      [] n[1] = "Lambda" -> <<n[2], n[3]>>
      [] n[1] = "BoolOp" -> <<n[2]>> \o n[3]
      [] n[1] = "IfExp" -> <<n[2], n[3], n[4]>>
      [] n[1] = "keyword" -> <<n[3]>>
      [] OTHER -> <<>>

\* ast.walk: breadth first, the node itself first
RECURSIVE walk_from(_, _)
walk_from(todo, seen) ==
    IF todo = <<>> THEN seen
    ELSE walk_from(Tail(todo) \o iter_child_nodes(Head(todo)), Append(seen, Head(todo)))

walk(node) == walk_from(<<node>>, <<>>)

\* the check of one node of the walk: the message it raises, or <<>>
node_check(n) ==
    IF n[1] \notin allowed_nodes
    THEN <<"Disallowed expression element", n[1]>>
    ELSE IF n[1] = "Name" /\ n[2] # "f" /\ n[2] \notin DOMAIN SAFE_MATH
    THEN <<"Unknown name", n[2]>>
    ELSE <<>>

compile_cost_expr(expr) ==
    LET e0 == IF expr = None THEN "" ELSE expr
        e1 == Strip(e0)
        e2 == IF e1 = "" THEN "1.0" ELSE e1
    IN  IF e2 \notin DOMAIN ParseTable
        THEN [exc |-> "SyntaxError", msg |-> <<>>, cost_func |-> <<>>]
        ELSE LET node == Expression(ParseTable[e2])
                 w == walk(node)
                 bad == {i \in 1..Len(w) : node_check(w[i]) # <<>>}
             IN  IF bad # {}
                 THEN [exc |-> "UnsafeExpression",
                       msg |-> node_check(w[CHOOSE i \in bad : \A j \in bad : i <= j]),
                       cost_func |-> <<>>]
                 ELSE [exc |-> "", msg |-> <<>>, cost_func |-> node]

RAbs(a) == IF ~IsR(a) \/ PosZ(a.x, a.y) THEN a ELSE RNeg(a)

RMin(a, b) == IF ~Comparable(a, b) THEN NaR ELSE IF RLess(b, a) THEN b ELSE a

RMax(a, b) == IF ~Comparable(a, b) THEN NaR ELSE IF RLess(a, b) THEN b ELSE a

IsInt(a) == IsR(a) /\ a.y = 0 /\ a.k = 0

RECURSIVE RPowN(_, _)
RPowN(a, n) == IF n = 0 THEN One ELSE RMul(a, RPowN(a, n - 1))

\* left op right on two floats
bin_num(op, a, b) ==
    CASE op = "Add" -> PyNum(RAdd(a, b))
      [] op = "Sub" -> PyNum(RSub(a, b))
      [] op = "Mult" -> PyNum(RMul(a, b))
      [] op = "Div" -> IF RIsZero(b) THEN PyExc("ZeroDivisionError") ELSE PyNum(RDiv(a, b))
      [] op = "Mod" ->
           IF RIsZero(b) THEN PyExc("ZeroDivisionError")
           ELSE IF IsInt(a) /\ IsInt(b) /\ b.x > 0 THEN PyNum(R(a.x % b.x))
           ELSE PyNum(NaR)
      [] op = "Pow" ->
           IF RIsZero(b) THEN PyNum(One)
           ELSE IF RIsZero(a)
           THEN (IF ~IsR(b) THEN PyNum(NaR)
                 ELSE IF PosZ(b.x, b.y) THEN PyNum(Zero) ELSE PyExc("ZeroDivisionError"))
           ELSE IF IsInt(b) /\ b.x \in 1..4 THEN PyNum(RPowN(a, b.x))
           ELSE PyNum(NaR)

RECURSIVE fold_minmax(_, _, _)
fold_minmax(name, acc, rest) ==
    IF rest = <<>> THEN acc
    ELSE fold_minmax(name,
                     IF name = "min" THEN RMin(acc, Head(rest).v) ELSE RMax(acc, Head(rest).v),
                     Tail(rest))

\* a call of one of the SAFE_MATH functions on evaluated arguments
apply_fn(name, args) ==
    IF \E i \in 1..Len(args) : args[i].t # "num" THEN PyExc("TypeError")
    ELSE IF name \in {"min", "max"}
    THEN (IF Len(args) < 2 THEN PyExc("TypeError")
          ELSE PyNum(fold_minmax(name, args[1].v, Tail(args))))
    ELSE IF name = "log" /\ Len(args) \notin {1, 2} THEN PyExc("TypeError")
    ELSE IF name # "log" /\ Len(args) # 1 THEN PyExc("TypeError")
    ELSE LET x == args[1].v IN
         CASE name = "abs" -> PyNum(RAbs(x))
           [] name = "sqrt" ->
                IF x = Zero \/ x = One THEN PyNum(x)
                ELSE IF IsR(x) /\ ~PosZ(x.x, x.y) THEN PyExc("ValueError")
                ELSE PyNum(NaR)
           [] name = "log" ->
                IF x = One /\ Len(args) = 1 THEN PyNum(Zero)
                ELSE IF IsR(x) /\ ~PosZ(x.x, x.y) THEN PyExc("ValueError")
                ELSE PyNum(NaR)
           [] name \in {"exp", "cos"} -> IF x = Zero THEN PyNum(One) ELSE PyNum(NaR)
           [] name \in {"sin", "tan"} -> IF x = Zero THEN PyNum(Zero) ELSE PyNum(NaR)

first_exc(vals) ==
    vals[CHOOSE i \in 1..Len(vals) :
           vals[i].t = "exc" /\ \A i2 \in 1..(i - 1) : vals[i2].t # "exc"]

has_exc(vals) == \E i \in 1..Len(vals) : vals[i].t = "exc"

unary_val(op, v) ==
    IF v.t = "exc" THEN v
    ELSE IF v.t # "num" THEN PyExc("TypeError")
    ELSE IF op = "USub" THEN PyNum(RNeg(v.v)) ELSE v

bin_val(op, l, r) ==
    IF l.t = "exc" THEN l
    ELSE IF r.t = "exc" THEN r
    ELSE IF l.t # "num" \/ r.t # "num" THEN PyExc("TypeError")
    ELSE bin_num(op, l.v, r.v)

call_val(fn, args) ==
    IF fn.t = "exc" THEN fn
    ELSE IF has_exc(args) THEN first_exc(args)
    ELSE IF fn.t # "fn" THEN PyExc("TypeError")
    ELSE apply_fn(fn.name, args)

tuple_val(elts) == IF has_exc(elts) THEN first_exc(elts) ELSE PyTuple

\* eval(code, {'__builtins__': {}}, local_ns) with f bound to fv
RECURSIVE eval(_, _)
eval(n, fv) ==
    CASE n[1] = "Expression" -> eval(n[2], fv)
      [] n[1] = "Constant" -> n[2]
      [] n[1] = "Name" -> IF n[2] = "f" THEN PyNum(fv) ELSE SAFE_MATH[n[2]]
      [] n[1] = "UnaryOp" -> unary_val(n[2][1], eval(n[3], fv))
      [] n[1] = "BinOp" -> bin_val(n[3][1], eval(n[2], fv), eval(n[4], fv))
      [] n[1] = "Call" -> call_val(eval(n[2], fv), [i \in 1..Len(n[3]) |-> eval(n[3][i], fv)])
      [] n[1] = "Tuple" -> tuple_val([i \in 1..Len(n[2]) |-> eval(n[2][i], fv)])

\* float(val)
to_float(val) ==
    CASE val.t = "exc" -> val
      [] val.t = "num" -> val
      [] val.t = "str" -> PyExc("ValueError")
      [] OTHER -> PyExc("TypeError")

\* the closure cost(f) over a compiled expression: float(eval(...))
cost(code, fv) == to_float(eval(code, fv))

(***************************************************************************)
(* Bounds of the model                                                     *)
(***************************************************************************)
NumNodes == 3

MaxDemand == 2

MaxIter == 2

MaxRuns == 2

MaxFlow == 2

MaxCost == 2

GoldenRounds == 20

Nodes == 1..NumNodes

\* the ordered pairs an edge of the model may join, and the expressions on each
CandidateEdges == {<<1, 2>>, <<1, 3>>, <<3, 2>>}

ExprsOn ==
    [e \in CandidateEdges |->
       CASE e = <<1, 2>> -> {"2", "f", "3 - 2*0**f", "1/abs(f-2)"}
         [] e = <<1, 3>> -> {"1"}
         [] e = <<3, 2>> -> {"1", "f"}]

\* tolerances of the model: phi^19 (about 1.07e-4, for the default 1e-4) and
\* 1 (10^(-x) at x = 0)
Tols == {RPowN(PHI, 19), One}

ODPairs == {<<1, 2>>, <<3, 2>>, <<2, 1>>, <<NumNodes, NumNodes>>}

Triples == {<<od[1], od[2], q>> : od \in ODPairs, q \in 0..MaxDemand}

DemandLists ==
    {<<t>> : t \in Triples}
      \cup {<<<<1, 2, MaxDemand>>, t>> : t \in {t2 \in Triples : t2[3] = 1}}

(***************************************************************************)
(* State                                                                   *)
(***************************************************************************)
VARIABLES
    G,          \* tgraph.G: [nodes, edges]; edges maps (u, v) to func_expr, cost_func, flow
    demands,    \* the demands argument: a sequence of <<o, d, D>>
    max_iter,   \* the max_iter argument
    tol,        \* the tol argument
    pc,         \* where frank_wolfe_assignment stands
    f,          \* the iterate f
    c,          \* the cost vector c = costs_at(f) of the current iteration
    y,          \* the AON target of the current iteration
    d,          \* the direction y - f of the current iteration
    a,          \* golden section bracket, lower end
    b,          \* golden section bracket, upper end
    brackets,   \* history: the brackets [a, b] of the last line search, round by round
    it,         \* passes of the for loop completed with an update of f
    term,       \* how the loop was left: "Converged" or "MaxIterReached"
    result,     \* the mapping returned
    exc,        \* the exception the call ended with, "" when none
    runs,       \* calls of frank_wolfe_assignment begun
    routes,     \* history: the path the last aon call loaded each demand on
    load,       \* history: per demand, the weight each o-d path carries in f
    trace,      \* history: the <<pc, f>> the current call went through
    prev,       \* history: the trace, term, result and exc of the call before it
    expr,       \* the argument of the last compile_cost_expr call
    compiled,   \* what that call returned or raised
    cost_arg,   \* the argument of the last call of the compiled cost(f)
    cost_ret,   \* what that call returned or raised
    pos,        \* G.nodes[n]['pos'] of the nodes that carry a position
    op,         \* the last call made on the graph: <<name, arguments...>>
    raised,     \* the exception that call left by, "" when it returned
    ret,        \* what that call returned
    edits,      \* calls made on the graph so far
    node_items,     \* MainWindow.node_items: the ids that have a node item
    edge_items,     \* MainWindow.edge_items: the pairs (u, v) that have an edge item
    incident_edges, \* MainWindow.incident_edges: <<n, e>> for the item of e listed at n
    held            \* history: the ids nodes have held since the graph was last cleared

solver_vars == <<G, demands, max_iter, tol, pc, f, c, y, d, a, b, brackets, it, term,
                 result, exc, runs, routes, load, trace, prev>>

sandbox_vars == <<expr, compiled, cost_arg, cost_ret>>

editor_vars == <<pos, op, raised, ret, edits, node_items, edge_items, incident_edges, held>>

vars == <<solver_vars, sandbox_vars, editor_vars>>

(***************************************************************************)
(* TrafficGraph                                                            *)
(***************************************************************************)
Edges == DOMAIN G.edges

\* list(G.edges()): rows by tail node, then head node, in insertion order
RECURSIVE sorted_edges(_)
sorted_edges(S) ==
    IF S = {} THEN <<>>
    ELSE LET e == CHOOSE e1 \in S :
                    \A e2 \in S : e1[1] < e2[1] \/ (e1[1] = e2[1] /\ e1[2] <= e2[2])
         IN  <<e>> \o sorted_edges(S \ {e})

edge_list == sorted_edges(Edges)

\* TrafficGraph.add_edge on a graph value
add_edge(g, u, v, func_expr) ==
    LET compiled_expr == compile_cost_expr(func_expr) IN
    [nodes |-> g.nodes \cup {u, v},
     edges |-> [e \in DOMAIN g.edges \cup {<<u, v>>} |->
                  IF e = <<u, v>>
                  THEN [func_expr |-> func_expr, cost_func |-> compiled_expr.cost_func, flow |-> Zero]
                  ELSE g.edges[e]]]

\* TrafficGraph.add_node on a graph value
add_node(g, n) == [g EXCEPT !.nodes = @ \cup {n}]

\* TrafficGraph.reset_flows
\* a reset that leaves the stored flows as they are
keep_stored(g) == g

reset_flows(g) == [g EXCEPT !.edges = [e \in DOMAIN g.edges |-> [g.edges[e] EXCEPT !.flow = Zero]]]

\* a write-back that stores nothing
keep_flows(g, fvec) == g

\* a write-back that also rewrites the expression text of every edge
set_flows_retexted(g, fvec) ==
    [g EXCEPT !.edges = [e \in DOMAIN g.edges |->
                           [g.edges[e] EXCEPT !.flow = fvec[e], !.func_expr = "1.0"]]]

\* TrafficGraph.set_flow for every edge of a vector, as lines 77-78 do
set_flows(g, fvec) ==
    [g EXCEPT !.edges = [e \in DOMAIN g.edges |-> [g.edges[e] EXCEPT !.flow = fvec[e]]]]

\* TrafficGraph.get_cost
\* a get_cost that always evaluates at the stored flow
get_cost_stored(e, flow) == cost(G.edges[e].cost_func, G.edges[e].flow)

\* lines 118-122: the stored flow only when the flow argument is None
get_cost(e, flow) ==
    cost(G.edges[e].cost_func, IF flow = PyNone THEN G.edges[e].flow ELSE flow)

(***************************************************************************)
(* frank_wolfe_assignment: the helpers costs_at, aon, objective            *)
(***************************************************************************)
zeros == [e \in Edges |-> Zero]

RECURSIVE sum_over(_, _)
sum_over(S, val) ==
    IF S = {} THEN Zero
    ELSE LET e == CHOOSE e1 \in S : TRUE IN RAdd(val[e], sum_over(S \ {e}, val))

\* the exception of the first edge, in edge order, whose cost raised
first_raised(got) ==
    got[edge_list[CHOOSE i \in 1..Len(edge_list) :
                    /\ got[edge_list[i]].t = "exc"
                    /\ \A i2 \in 1..(i - 1) : got[edge_list[i2]].t # "exc"]].kind

costs_of(got) ==
    IF \E e \in Edges : got[e].t = "exc"
    THEN [exc |-> first_raised(got), c |-> zeros]
    ELSE [exc |-> "", c |-> [e \in Edges |-> got[e].v]]

\* costs_at(fvec): the cost vector, or the exception that ends the call
costs_at(fvec) == costs_of([e \in Edges |-> get_cost(e, fvec[e])])

\* the nodes of H: the endpoints of the edges
h_nodes == {e[1] : e \in Edges} \cup {e[2] : e \in Edges}

path_edges(p) == {<<p[i], p[i + 1]>> : i \in 1..(Len(p) - 1)}

\* the simple paths of the graph from o to t, as node sequences
simple_paths(o, t) ==
    {p \in UNION {[1..n -> h_nodes] : n \in 1..Cardinality(h_nodes)} :
        /\ p[1] = o
        /\ p[Len(p)] = t
        /\ \A i, i2 \in 1..Len(p) : i # i2 => p[i] # p[i2]
        /\ path_edges(p) \subseteq Edges}

path_weight(p, costs) == sum_over(path_edges(p), costs)

\* a fixed order on paths: fewer nodes first, then by the nodes in order
RECURSIVE path_key(_)
path_key(p) ==
    IF p = <<>> THEN 1
    ELSE path_key(SubSeq(p, 1, Len(p) - 1)) * (NumNodes + 1) + p[Len(p)]

\* a choice among equal paths that changes from one call to the next
tie_break_by_run(P) ==
    IF runs = 0 THEN CHOOSE p \in P : \A p2 \in P : path_key(p) <= path_key(p2)
    ELSE CHOOSE p \in P : \A p2 \in P : path_key(p) >= path_key(p2)

tie_break(P) == CHOOSE p \in P : \A p2 \in P : path_key(p) <= path_key(p2)

\* the paths of greatest weight among P
heaviest(P, w) == {p \in P : \A p2 \in P : RLeq(w[p2], w[p])}

\* the paths of least weight among P, w their weights
lightest(P, w) == {p \in P : \A p2 \in P : RLeq(w[p], w[p2])}

shortest_among(P, costs) ==
    IF P = {} THEN <<>>
    ELSE tie_break(lightest(P, [p \in P |-> path_weight(p, costs)]))

\* nx.shortest_path(H, o, t, weight='weight'): a path of minimum weight, or
\* <<>> when it raises (a node that is not in H, no path)
shortest_path(costs, o, t) ==
    IF o \notin h_nodes \/ t \notin h_nodes THEN <<>>
    ELSE shortest_among(simple_paths(o, t), costs)

\* the path each demand is loaded on under a cost vector
chosen(dem, costs) ==
    [i \in 1..Len(dem) |-> shortest_path(costs, dem[i][1], dem[i][2])]

\* the loading when the first demand without a path ends the loop over the demands
load_until_raise(dem, path) ==
    [e \in Edges |->
       sum_over({i \in 1..Len(dem) : /\ e \in path_edges(path[i])
                                     /\ \A i2 \in 1..i : path[i2] # <<>>},
                [i \in 1..Len(dem) |-> R(dem[i][3])])]

\* a loading that takes D away from every edge of each demand's path
unload_paths(dem, path) ==
    [e \in Edges |->
       RNeg(sum_over({i \in 1..Len(dem) : e \in path_edges(path[i])},
                     [i \in 1..Len(dem) |-> R(dem[i][3])]))]

\* lines 35-43: D added on every edge of each demand's path
load_paths(dem, path) ==
    [e \in Edges |->
       sum_over({i \in 1..Len(dem) : e \in path_edges(path[i])},
                [i \in 1..Len(dem) |-> R(dem[i][3])])]

\* aon(costs): every demand loaded on its shortest path
aon(costs) == load_paths(demands, chosen(demands, costs))

od_paths(i) ==
    IF demands[i][1] \in h_nodes /\ demands[i][2] \in h_nodes
    THEN simple_paths(demands[i][1], demands[i][2]) ELSE {}

\* every pair of path weights aon compares is within the width
weights_ok(w) == \A p \in DOMAIN w : \A p2 \in DOMAIN w : Comparable(w[p], w[p2])

costs_ok(costs) ==
    /\ \A e \in Edges : IsR(costs[e])
    /\ \A i \in 1..Len(demands) :
           weights_ok([p \in od_paths(i) |-> path_weight(p, costs)])

vec_add(u, v) == [e \in Edges |-> RAdd(u[e], v[e])]

\* the target alone as the direction
vec_first(u, v) == [e \in Edges |-> u[e]]

\* the difference taken the wrong way round
vec_sub_reversed(u, v) == [e \in Edges |-> RSub(v[e], u[e])]

vec_sub(u, v) == [e \in Edges |-> RSub(u[e], v[e])]

vec_scale(s, v) == [e \in Edges |-> RMul(s, v[e])]

dot(u, v) == sum_over(Edges, [e \in Edges |-> RMul(u[e], v[e])])

vec_ok(v) == \A e \in Edges : IsR(v[e])

\* a norm test that never passes
norm_never(dv, t) == FALSE

\* np.linalg.norm(dv) < t, compared on the squares
less_sq(dd, tt) == RLess(dd, tt)

\* a norm test with the comparison turned round
norm_reversed(dv, t) == RPos(t) /\ less_sq(RMul(t, t), dot(dv, dv))

norm_less(dv, t) == RPos(t) /\ less_sq(dot(dv, dv), RMul(t, t))

\* the numbers the test compares are representable
norm_ok(dv, t) == Comparable(dot(dv, dv), RMul(t, t))

\* np.dot(cost_trial, trial)
objective_of(cost_trial, trial) == [exc |-> cost_trial.exc, v |-> dot(cost_trial.c, trial)]

objective_at(trial) == objective_of(costs_at(trial), trial)

\* objective(alpha) of the line search
objective(alpha) == objective_at(vec_add(f, vec_scale(alpha, d)))

phi == PHI

(***************************************************************************)
(* The graphs, demands and arguments a call is made with                   *)
(***************************************************************************)
RECURSIVE add_edges(_, _, _)
add_edges(g, es, ex) ==
    IF es = <<>> THEN g
    ELSE add_edges(add_edge(g, Head(es)[1], Head(es)[2], ex[Head(es)]), Tail(es), ex)

RECURSIVE add_nodes(_, _)
add_nodes(g, n) == IF n = 0 THEN g ELSE add_node(add_nodes(g, n - 1), n)

EmptyGraph == [nodes |-> {}, edges |-> <<>>]

Networks ==
    {add_edges(add_nodes(EmptyGraph, NumNodes), sorted_edges(DOMAIN ex), ex) :
        ex \in UNION {{x \in [S -> UNION {ExprsOn[e] : e \in S}] :
                          \A e \in S : x[e] \in ExprsOn[e]} : S \in SUBSET CandidateEdges}}

NoVec == <<>>

\* flow values a compiled cost is called with
Flows == {R(n) : n \in 0..MaxFlow} \cup {RHalf(R(n)) : n \in 0..MaxFlow} \cup {PHI}

\* cost values aon is called with
CostSamples == {R(n) : n \in 0..MaxCost}

NoCall ==
    /\ f = NoVec /\ c = NoVec /\ y = NoVec /\ d = NoVec
    /\ a = Zero /\ b = One /\ brackets = <<>>
    /\ it = 0 /\ term = "" /\ result = NoVec /\ exc = ""
    /\ runs = 0
    /\ routes = <<>> /\ load = <<>> /\ trace = <<>> /\ prev = <<>>

NoCompile == expr = "" /\ compiled = <<>> /\ cost_arg = Zero /\ cost_ret = <<>>

NoEdit ==
    /\ pos = <<>> /\ op = <<"">> /\ raised = "" /\ ret = <<>> /\ edits = 0
    /\ node_items = {} /\ edge_items = {} /\ incident_edges = {} /\ held = {}

Init ==
    /\ G \in Networks
    /\ demands \in DemandLists
    /\ max_iter \in 0..MaxIter
    /\ tol \in Tols
    /\ pc = "idle"
    /\ NoCall
    /\ NoCompile
    /\ NoEdit

(***************************************************************************)
(* frank_wolfe_assignment, step by step                                    *)
(***************************************************************************)
\* history: the weight of each demand's paths when it is loaded on path[i] alone
unit_load(path) ==
    [i \in 1..Len(demands) |->
       [p \in od_paths(i) |-> IF p = path[i] THEN R(demands[i][3]) ELSE Zero]]

\* history: the weights after f = f + alpha*d towards the loading on path
step_load(alpha, path) ==
    [i \in 1..Len(demands) |->
       [p \in od_paths(i) |->
          RAdd(load[i][p],
               RMul(alpha, RSub(IF p = path[i] THEN R(demands[i][3]) ELSE Zero,
                                load[i][p])))]]

\* line 47 with the costs c0 at zero flow: f = aon(c0)
StartWith(c0) ==
    IF c0.exc # ""
    THEN /\ pc' = "raised" /\ exc' = c0.exc
         /\ f' = NoVec /\ routes' = <<>> /\ load' = <<>>
    ELSE /\ costs_ok(c0.c)
         /\ pc' = "loop" /\ exc' = ""
         /\ f' = aon(c0.c)
         /\ routes' = chosen(demands, c0.c)
         /\ load' = unit_load(routes')

\* lines 19-47: reset the flows, f = aon(costs_at(zeros))
Start ==
    /\ pc \in {"idle", "done", "raised"}
    /\ runs < MaxRuns
    /\ G' = reset_flows(G)
    /\ runs' = runs + 1
    /\ prev' = [trace |-> trace, term |-> term, result |-> result, exc |-> exc]
    /\ c' = NoVec /\ y' = NoVec /\ d' = NoVec
    /\ a' = Zero /\ b' = One /\ brackets' = <<>>
    /\ it' = 0 /\ term' = "" /\ result' = NoVec
    /\ StartWith(costs_at(zeros))
    /\ trace' = <<<<pc', f'>>>>
    /\ UNCHANGED <<demands, max_iter, tol, sandbox_vars, editor_vars>>

\* lines 52-55 and 64: the direction, the norm test, the bracket of the search
Direction(dv) ==
    /\ d' = dv
    /\ vec_ok(dv) /\ norm_ok(dv, tol)
    /\ IF norm_less(dv, tol)
       THEN /\ pc' = "finish" /\ term' = "Converged"
            /\ UNCHANGED <<a, b>>
       ELSE /\ pc' = "search" /\ a' = Zero /\ b' = One
            /\ UNCHANGED term

\* lines 50-55 with the costs cf at f
IterateWith(cf) ==
    IF cf.exc # ""
    THEN /\ pc' = "raised" /\ exc' = cf.exc
         /\ UNCHANGED <<c, y, d, a, b, term, routes>>
    ELSE /\ costs_ok(cf.c)
         /\ c' = cf.c
         /\ y' = aon(cf.c)
         /\ routes' = chosen(demands, cf.c)
         /\ Direction(vec_sub(y', f))
         /\ UNCHANGED exc

\* lines 49-55 and 64: costs at f, the AON target, the direction, the norm test
Iterate ==
    /\ pc = "loop"
    /\ it < max_iter
    /\ IterateWith(costs_at(f))
    /\ trace' = Append(trace, <<pc', f>>)
    /\ UNCHANGED <<G, demands, max_iter, tol, f, brackets, it, result, runs, load, prev,
                   sandbox_vars, editor_vars>>

\* line 49: the for loop has made its max_iter passes
Exhaust ==
    /\ pc = "loop"
    /\ it = max_iter
    /\ pc' = "finish"
    /\ term' = "MaxIterReached"
    /\ trace' = Append(trace, <<pc', f>>)
    /\ UNCHANGED <<G, demands, max_iter, tol, f, c, y, d, a, b, brackets, it, result, exc,
                   runs, routes, load, prev, sandbox_vars, editor_vars>>

\* lines 66-72: the golden section rounds still to run on the bracket [lo, hi];
\* seen is the sequence of brackets so far
RECURSIVE golden_section(_, _, _, _)
\* a round that keeps the side whose interior point has the higher objective
golden_pick_higher(lo, hi, n, seen, c1, c2, o1, o2) ==
    IF o1.exc # "" THEN [exc |-> o1.exc, a |-> lo, b |-> hi, seen |-> seen]
    ELSE IF o2.exc # "" THEN [exc |-> o2.exc, a |-> lo, b |-> hi, seen |-> seen]
    ELSE IF ~Comparable(o1.v, o2.v) THEN [exc |-> "", a |-> NaR, b |-> NaR, seen |-> seen]
    ELSE IF RLess(o2.v, o1.v)
    THEN golden_section(lo, c2, n - 1, Append(seen, <<lo, c2>>))
    ELSE golden_section(c1, hi, n - 1, Append(seen, <<c1, hi>>))

golden_pick(lo, hi, n, seen, c1, c2, o1, o2) ==
    IF o1.exc # "" THEN [exc |-> o1.exc, a |-> lo, b |-> hi, seen |-> seen]
    ELSE IF o2.exc # "" THEN [exc |-> o2.exc, a |-> lo, b |-> hi, seen |-> seen]
    ELSE IF ~Comparable(o1.v, o2.v) THEN [exc |-> "", a |-> NaR, b |-> NaR, seen |-> seen]
    ELSE IF RLess(o1.v, o2.v)
    THEN golden_section(lo, c2, n - 1, Append(seen, <<lo, c2>>))
    ELSE golden_section(c1, hi, n - 1, Append(seen, <<c1, hi>>))

golden_probe(lo, hi, n, seen, c1, c2) ==
    golden_pick(lo, hi, n, seen, c1, c2, objective(c1), objective(c2))

golden_section(lo, hi, n, seen) ==
    IF n = 0 THEN [exc |-> "", a |-> lo, b |-> hi, seen |-> seen]
    ELSE golden_probe(lo, hi, n, seen,
                      RSub(hi, RMul(phi, RSub(hi, lo))),
                      RAdd(lo, RMul(phi, RSub(hi, lo))))

\* the update with the step 2/(k + 2) of pass k in place of the midpoint
StepBy_classic(alpha) ==
    /\ f' = vec_add(f, vec_scale(RDiv(R(2), R(it + 2)), d))
    /\ vec_ok(f')
    /\ load' = step_load(RDiv(R(2), R(it + 2)), routes)

\* lines 73-75: alpha the midpoint of the final bracket, f = f + alpha*d
StepBy(alpha) ==
    /\ f' = vec_add(f, vec_scale(alpha, d))
    /\ vec_ok(f')
    /\ load' = step_load(alpha, routes)

\* the update of f without the count of the pass
AfterSearch_uncounted(gs) ==
    /\ brackets' = gs.seen
    /\ IF gs.exc # ""
       THEN /\ pc' = "raised" /\ exc' = gs.exc
            /\ UNCHANGED <<f, a, b, it, load>>
       ELSE /\ IsR(gs.a) /\ IsR(gs.b)
            /\ a' = gs.a /\ b' = gs.b
            /\ StepBy(RHalf(RAdd(gs.a, gs.b)))
            /\ it' = it
            /\ pc' = "loop"
            /\ UNCHANGED exc

\* the update with the upper end of the last bracket as the step
AfterSearch_upper(gs) ==
    /\ brackets' = gs.seen
    /\ IF gs.exc # ""
       THEN /\ pc' = "raised" /\ exc' = gs.exc
            /\ UNCHANGED <<f, a, b, it, load>>
       ELSE /\ IsR(gs.a) /\ IsR(gs.b)
            /\ a' = gs.a /\ b' = gs.b
            /\ StepBy(gs.b)
            /\ it' = it + 1
            /\ pc' = "loop"
            /\ UNCHANGED exc

\* lines 64-75 once the rounds gs of the golden section are done
AfterSearch(gs) ==
    /\ brackets' = gs.seen
    /\ IF gs.exc # ""
       THEN /\ pc' = "raised" /\ exc' = gs.exc
            /\ UNCHANGED <<f, a, b, it, load>>
       ELSE /\ IsR(gs.a) /\ IsR(gs.b)
            /\ a' = gs.a /\ b' = gs.b
            /\ StepBy(RHalf(RAdd(gs.a, gs.b)))
            /\ it' = it + 1
            /\ pc' = "loop"
            /\ UNCHANGED exc

\* a line search that also stores the new iterate in the graph
LineSearch_stored ==
    /\ pc = "search"
    /\ AfterSearch(golden_section(a, b, GoldenRounds, <<<<a, b>>>>))
    /\ trace' = Append(trace, <<pc', f'>>)
    /\ G' = set_flows(G, f')
    /\ UNCHANGED <<demands, max_iter, tol, c, y, d, term, result, runs, routes, prev,
                   sandbox_vars, editor_vars>>

\* lines 57-75: the line search and the update of f
LineSearch ==
    /\ pc = "search"
    /\ AfterSearch(golden_section(a, b, GoldenRounds, <<<<a, b>>>>))
    /\ trace' = Append(trace, <<pc', f'>>)
    /\ UNCHANGED <<G, demands, max_iter, tol, c, y, d, term, result, runs, routes, prev,
                   sandbox_vars, editor_vars>>

\* lines 77-80: write f back into the graph, return the stored flows
Finish ==
    /\ pc = "finish"
    /\ G' = set_flows(G, f)
    /\ result' = [e \in Edges |-> G'.edges[e].flow]
    /\ pc' = "done"
    /\ trace' = Append(trace, <<pc', f>>)
    /\ UNCHANGED <<demands, max_iter, tol, f, c, y, d, a, b, brackets, it, term, exc, runs,
                   routes, load, prev, sandbox_vars, editor_vars>>

Next == Start \/ Iterate \/ Exhaust \/ LineSearch \/ Finish

Spec == Init /\ [][Next]_vars

(***************************************************************************)
(* aon on its own: any cost vector, any demand list                        *)
(***************************************************************************)
AonInit ==
    /\ G \in Networks
    /\ demands \in DemandLists
    /\ max_iter = 0
    /\ tol = One
    /\ pc = "aon"
    /\ NoCall
    /\ NoCompile
    /\ NoEdit

\* lines 31-43: y = aon(costs)
CallAon ==
    /\ pc = "aon"
    /\ \E costs \in [Edges -> CostSamples] :
         /\ c' = costs
         /\ y' = aon(costs)
         /\ routes' = chosen(demands, costs)
    /\ pc' = "returned"
    /\ UNCHANGED <<G, demands, max_iter, tol, f, d, a, b, brackets, it, term, result,
                   exc, runs, load, trace, prev, sandbox_vars, editor_vars>>

NextAon == CallAon

SpecAon == AonInit /\ [][NextAon]_vars

(***************************************************************************)
(* The sandbox on its own: compile a text, call the compiled cost          *)
(***************************************************************************)
SandboxInit ==
    /\ G = EmptyGraph
    /\ demands = <<>>
    /\ max_iter = 0
    /\ tol = One
    /\ pc = "sandbox"
    /\ NoCall
    /\ NoCompile
    /\ NoEdit

\* graph_model.py lines 42-76: compile_cost_expr(text)
Compile ==
    /\ pc = "sandbox"
    /\ \E text \in Texts \cup {None} :
         /\ expr' = text
         /\ compiled' = compile_cost_expr(text)
    /\ cost_arg' = Zero
    /\ cost_ret' = <<>>
    /\ UNCHANGED <<solver_vars, editor_vars>>

\* graph_model.py lines 70-74: cost(f) of the function compile_cost_expr returned
CallCost ==
    /\ pc = "sandbox"
    /\ compiled # <<>>
    /\ compiled.exc = ""
    /\ \E fv \in Flows :
         /\ cost_arg' = fv
         /\ cost_ret' = cost(compiled.cost_func, fv)
    /\ UNCHANGED <<expr, compiled, solver_vars, editor_vars>>

NextSandbox == Compile \/ CallCost

SpecSandbox == SandboxInit /\ [][NextSandbox]_vars

(***************************************************************************)
(* TrafficGraph and the editor: calls made one after another on one graph  *)
(***************************************************************************)
MaxEdits == 2

\* the ordered pairs, expression texts and positions the calls are made with
EditPairs == {<<1, 2>>, <<2, 1>>, <<1, 1>>}

EditTexts == {"f", "2", "1 +", "x + 1"}

Positions == {<<0, 0>>, <<1, 1>>}

\* demand lists compute_od_travel_times and frank_wolfe_assignment are called with
GraphDemands ==
    {<<<<1, 2, MaxDemand>>>>, <<<<1, 2, 1>>, <<NumNodes, NumNodes, 1>>>>,
     <<<<2, 1, 1>>, <<1, 2, 1>>>>}

\* the content of the files loaded: nodes as <<id, pos>>, edges as <<u, v, expr>>
Files ==
    {[nodes |-> <<<<1, <<0, 0>>>>, <<2, <<1, 1>>>>>>,
      edges |-> <<<<1, 2, "f">>, <<2, 1, "2">>>>],
     [nodes |-> <<<<1, <<0, 0>>>>>>,
      edges |-> <<<<1, 1, "1">>>>],
     [nodes |-> <<<<1, <<0, 0>>>>, <<2, <<1, 1>>>>>>,
      edges |-> <<<<1, 2, "1">>, <<2, 1, "1 +">>, <<2, 2, "1">>>>]}

\* nx.DiGraph.remove_node: the node goes with the edges at it
remove_node(g, n) ==
    [nodes |-> g.nodes \ {n},
     edges |-> [e \in {e1 \in DOMAIN g.edges : e1[1] # n /\ e1[2] # n} |-> g.edges[e]]]

\* nx.DiGraph.remove_edge, as MainWindow._remove_edge calls it
remove_edge(g, u, v) ==
    [g EXCEPT !.edges = [e \in DOMAIN g.edges \ {<<u, v>>} |-> g.edges[e]]]

\* a replacement that stores the text and keeps the cost function it had
set_text_only(g, u, v, text) == [g EXCEPT !.edges[<<u, v>>].func_expr = text]

\* a replacement that also puts the stored flow back to 0
set_expr_and_reset(g, u, v, text) ==
    [g EXCEPT !.edges[<<u, v>>] =
        [func_expr |-> text, cost_func |-> compile_cost_expr(text).cost_func, flow |-> Zero]]

\* lines 112-113 of set_edge_expr, the expression compiled
set_edge_expr(g, u, v, text) ==
    [g EXCEPT !.edges[<<u, v>>] =
        [@ EXCEPT !.func_expr = text, !.cost_func = compile_cost_expr(text).cost_func]]

\* the loop over the edges of a file: add_edge until one raises
RECURSIVE load_edges(_, _)
load_edges(g, es) ==
    IF es = <<>> THEN [G |-> g, raised |-> ""]
    ELSE LET k == compile_cost_expr(Head(es)[3]).exc IN
         IF k # "" THEN [G |-> g, raised |-> k]
         ELSE load_edges(add_edge(g, Head(es)[1], Head(es)[2], Head(es)[3]), Tail(es))

\* load_from_json, load_from_xml: clear, add the nodes, add the edges
load_from(file) ==
    load_edges([nodes |-> {file.nodes[i][1] : i \in 1..Len(file.nodes)}, edges |-> <<>>],
               file.edges)

\* lines 88-112 with the flow fvec[e] passed to get_cost for edge e: the dict
\* returned, or the exception that leaves the call
od_travel_times(dem, fvec) ==
    LET w == costs_at(fvec)
        path == chosen(dem, w.c)
        total(i) == sum_over(path_edges(path[i]), [e \in Edges |-> get_cost(e, fvec[e]).v])
    IN  IF w.exc # "" THEN [raised |-> w.exc, ret |-> <<>>]
        ELSE [raised |-> "",
              ret |-> [od \in {<<dem[i][1], dem[i][2]>> : i \in 1..Len(dem)} |->
                         LET i == CHOOSE i1 \in 1..Len(dem) : <<dem[i1][1], dem[i1][2]>> = od
                         IN  IF path[i] = <<>> THEN PyNone ELSE PyNum(total(i))]]

\* travel times on the costs of the empty network
travel_times_unloaded(dem) == od_travel_times(dem, zeros)

\* compute_od_travel_times(tgraph, dem): every cost at the flow stored on its edge
compute_od_travel_times(dem) == od_travel_times(dem, [e \in Edges |-> G.edges[e].flow])

\* frank_wolfe_assignment(tgraph, dem, max_iter=0): reset, f = aon(costs_at(zeros)),
\* no pass of the loop, write back
frank_wolfe_0(dem) ==
    LET c0 == costs_at(zeros) IN
    IF c0.exc # "" THEN [G |-> reset_flows(G), raised |-> c0.exc, ret |-> <<>>]
    ELSE LET f0 == load_paths(dem, chosen(dem, c0.c)) IN
         [G |-> set_flows(reset_flows(G), f0), raised |-> "", ret |-> f0]

GraphInit ==
    /\ G \in {EmptyGraph,
              add_edges(add_nodes(EmptyGraph, NumNodes), <<<<1, 2>>, <<1, 3>>, <<3, 2>>>>,
                        [e \in CandidateEdges |-> IF e = <<1, 2>> THEN "f" ELSE "1"]),
              add_edges(add_nodes(EmptyGraph, NumNodes), <<<<1, 2>>>>,
                        [e \in {<<1, 2>>} |-> "1/abs(f-2)"])}
    /\ demands = <<>>
    /\ max_iter = 0
    /\ tol = One
    /\ pc = "edit"
    /\ NoCall
    /\ NoCompile
    /\ pos = [n \in G.nodes |-> <<0, 0>>]
    /\ op = <<"">> /\ raised = "" /\ ret = <<>> /\ edits = 0
    /\ node_items = G.nodes /\ edge_items = Edges
    /\ incident_edges = {<<e[1], e>> : e \in Edges} \cup {<<e[2], e>> : e \in Edges}
    /\ held = G.nodes

\* one call o of the window: what it leaves in the graph, raises and returns, and
\* the items ni, ei, ie it leaves in node_items, edge_items and incident_edges
Handle(o, g, p, x, r, ni, ei, ie) ==
    /\ pc = "edit"
    /\ edits < MaxEdits
    /\ op' = o /\ G' = g /\ pos' = p /\ raised' = x /\ ret' = r
    /\ node_items' = ni /\ edge_items' = ei /\ incident_edges' = ie
    /\ held' = IF o[1] \in {"clear_graph", "load_graph", "load_from_json", "load_from_xml"}
               THEN g.nodes ELSE held \cup g.nodes
    /\ edits' = edits + 1
    /\ UNCHANGED <<demands, max_iter, tol, pc, f, c, y, d, a, b, brackets, it, term,
                   result, exc, runs, routes, load, trace, prev, sandbox_vars>>

\* one call o on the graph alone: the items of the window stay as they are
Edit(o, g, p, x, r) == Handle(o, g, p, x, r, node_items, edge_items, incident_edges)

\* lines 86-87: G.add_node(node_id, pos=pos)
AddNode ==
    \E n \in Nodes, p \in Positions :
        Edit(<<"add_node", n, p>>, add_node(G, n),
             [m \in DOMAIN pos \cup {n} |-> IF m = n THEN p ELSE pos[m]], "", None)

\* lines 89-90: G.remove_node raises NetworkXError for a node that is not in G
RemoveNode ==
    \E n \in Nodes :
        IF n \notin G.nodes
        THEN Edit(<<"remove_node", n>>, G, pos, "NetworkXError", None)
        ELSE Edit(<<"remove_node", n>>, remove_node(G, n),
                  [m \in DOMAIN pos \ {n} |-> pos[m]], "", None)

\* lines 92-93: G.nodes[node] raises KeyError for a node that is not in G
SetNodePos ==
    \E n \in Nodes, p \in Positions :
        IF n \notin G.nodes
        THEN Edit(<<"set_node_pos", n, p>>, G, pos, "KeyError", None)
        ELSE Edit(<<"set_node_pos", n, p>>, G,
                  [m \in DOMAIN pos \cup {n} |-> IF m = n THEN p ELSE pos[m]], "", None)

\* lines 99-105: compile, then G.add_edge, which adds the endpoints that are missing
AddEdge ==
    \E e \in EditPairs, text \in EditTexts :
        LET k == compile_cost_expr(text).exc IN
        IF k # ""
        THEN Edit(<<"add_edge", e, text>>, G, pos, k, None)
        ELSE Edit(<<"add_edge", e, text>>, add_edge(G, e[1], e[2], text), pos, "", None)

\* lines 107-113: compile, then G[u][v], KeyError for an edge that is not in G
SetEdgeExpr ==
    \E e \in EditPairs, text \in EditTexts :
        LET k == compile_cost_expr(text).exc IN
        IF k # ""
        THEN Edit(<<"set_edge_expr", e, text>>, G, pos, k, None)
        ELSE IF e \notin Edges
        THEN Edit(<<"set_edge_expr", e, text>>, G, pos, "KeyError", None)
        ELSE Edit(<<"set_edge_expr", e, text>>, set_edge_expr(G, e[1], e[2], text),
                  pos, "", None)

\* lines 115-116, called with a flow of the solver
SetFlow ==
    \E e \in EditPairs, fl \in {One, R(MaxFlow)} :
        IF e \notin Edges
        THEN Edit(<<"set_flow", e, fl>>, G, pos, "KeyError", None)
        ELSE Edit(<<"set_flow", e, fl>>, [G EXCEPT !.edges[e].flow = fl], pos, "", None)

\* lines 118-122: an exception of the cost function leaves get_cost
GetCost ==
    \E e \in EditPairs, fl \in {PyNone, Zero, R(MaxFlow)} :
        IF e \notin Edges
        THEN Edit(<<"get_cost", e, fl>>, G, pos, "KeyError", None)
        ELSE LET v == get_cost(e, fl) IN
             Edit(<<"get_cost", e, fl>>, G, pos,
                  IF v.t = "exc" THEN v.kind ELSE "", IF v.t = "exc" THEN None ELSE v.v)

\* lines 127-129
ResetFlows == Edit(<<"reset_flows">>, reset_flows(G), pos, "", None)

\* lines 132-157 and 159-191: an edge that does not compile ends the load part-way
LoadFrom ==
    \E fmt \in {"load_from_json", "load_from_xml"}, file \in Files :
        LET got == load_from(file) IN
        Edit(<<fmt, file>>, got.G,
             [n \in {file.nodes[i][1] : i \in 1..Len(file.nodes)} |->
                file.nodes[CHOOSE i \in 1..Len(file.nodes) : file.nodes[i][1] = n][2]],
             got.raised, None)

\* algorithms.py lines 83-114
TravelTimes ==
    \E dem \in GraphDemands :
        LET got == compute_od_travel_times(dem) IN
        Edit(<<"compute_od_travel_times", dem>>, G, pos, got.raised, got.ret)

\* algorithms.py lines 19-80 with max_iter = 0
Assign ==
    \E dem \in GraphDemands :
        LET got == frank_wolfe_0(dem) IN
        Edit(<<"frank_wolfe_assignment", dem>>, got.G, pos, got.raised, got.ret)

\* main_window_logic.py lines 128-214: the pair typed (checked against the nodes)
\* or two selected nodes; UnsafeExpression is caught, any other exception
\* leaves the handler
add_edge_between_selected ==
    \E typed \in BOOLEAN, e \in EditPairs, text \in {"f", "1 +", "x + 1"} :
        /\ ~typed => (e[1] \in G.nodes /\ e[2] \in G.nodes /\ e[1] # e[2])
        /\ LET k == compile_cost_expr(text).exc
               o == <<"add_edge_between_selected", e, text, typed>>
           IN  IF e[1] \notin G.nodes \/ e[2] \notin G.nodes \/ e[1] = e[2] \/ e \in Edges
               THEN Edit(o, G, pos, "", None)
               ELSE IF k # ""
               THEN Edit(o, G, pos, IF k = "UnsafeExpression" THEN "" ELSE k, None)
               ELSE Handle(o, add_edge(G, e[1], e[2], text), pos, "", None,
                           node_items, edge_items \cup {e},
                           incident_edges \cup {<<e[1], e>>, <<e[2], e>>})

\* main_window_logic.py lines 236-286: the edge selected or typed (checked with
\* has_edge), then set_edge_expr with UnsafeExpression caught; the OD table is
\* empty, so the recalculate() that ends the typed branch returns at line 472
edit_selected_edge ==
    \E e \in EditPairs, text \in {"2", "1 +", "x + 1"} :
        LET k == compile_cost_expr(text).exc
            o == <<"edit_selected_edge", e, text>>
        IN  IF e \notin Edges THEN Edit(o, G, pos, "", None)
            ELSE IF k # ""
            THEN Edit(o, G, pos, IF k = "UnsafeExpression" THEN "" ELSE k, None)
            ELSE Edit(o, set_edge_expr(G, e[1], e[2], text), pos, "", None)

\* main_window_logic.py lines 292-406: remove an edge, remove a node with its
\* edges; the edge or the node is typed (checked against the graph) or is a
\* selected item; _remove_edge takes the edge from the graph and its item from
\* edge_items and from the lists of both ends
remove_selected_items ==
    \/ \E e \in EditPairs :
         Handle(<<"remove_selected_items", "edge", e>>,
                IF e \in Edges THEN remove_edge(G, e[1], e[2]) ELSE G, pos, "", None,
                node_items, edge_items \ {e},
                incident_edges \ {<<e[1], e>>, <<e[2], e>>})
    \/ \E n \in Nodes :
         IF n \in G.nodes \cup node_items
         THEN Handle(<<"remove_selected_items", "node", n>>,
                     IF n \in G.nodes THEN remove_node(G, n) ELSE G,
                     [m \in DOMAIN pos \ {n} |-> pos[m]], "", None,
                     node_items \ {n},
                     {e \in edge_items : e[1] # n /\ e[2] # n},
                     {ie \in incident_edges :
                         ie[1] # n /\ ie[2][1] # n /\ ie[2][2] # n})
         ELSE Edit(<<"remove_selected_items", "node", n>>, G,
                   [m \in DOMAIN pos \ {n} |-> pos[m]], "", None)

NextGraph ==
    \/ AddNode \/ RemoveNode \/ SetNodePos
    \/ AddEdge \/ SetEdgeExpr \/ SetFlow \/ GetCost \/ ResetFlows
    \/ LoadFrom \/ TravelTimes \/ Assign
    \/ add_edge_between_selected \/ edit_selected_edge \/ remove_selected_items

SpecGraph == GraphInit /\ [][NextGraph]_vars

(***************************************************************************)
(* The window: its handlers called one after another, with the items it    *)
(* keeps for the nodes and the edges                                       *)
(***************************************************************************)
\* main_window_logic.py lines 95-107: the id is max(existing) + 1, or 1 on an
\* empty graph; ids stay within the node ids of the model
MainWindow_add_node ==
    \E p \in Positions :
        LET nid == IF G.nodes = {} THEN 1
                   ELSE (CHOOSE m \in G.nodes : \A n \in G.nodes : n <= m) + 1
        IN  /\ nid \in Nodes
            /\ Handle(<<"MainWindow.add_node", nid, p>>, add_node(G, nid),
                      [m \in DOMAIN pos \cup {nid} |-> IF m = nid THEN p ELSE pos[m]],
                      "", None, node_items \cup {nid}, edge_items, incident_edges)

\* main_window_logic.py lines 515-524
clear_graph == Handle(<<"clear_graph">>, EmptyGraph, <<>>, "", None, {}, {}, {})

\* main_window_logic.py lines 530-630: clear_graph, then the load by the
\* extension of the path, then the items rebuilt from the graph; an exception
\* of the load is caught at line 629 with the items still cleared
load_graph ==
    \E fmt \in {"json", "xml", "other"}, file \in Files :
        LET got == load_from(file)
            o == <<"load_graph", fmt, file>>
            p == [n \in {file.nodes[i][1] : i \in 1..Len(file.nodes)} |->
                    file.nodes[CHOOSE i \in 1..Len(file.nodes) : file.nodes[i][1] = n][2]]
        IN  IF fmt = "other" THEN Handle(o, EmptyGraph, <<>>, "", None, {}, {}, {})
            ELSE IF got.raised # "" THEN Handle(o, got.G, p, "", None, {}, {}, {})
            ELSE Handle(o, got.G, p, "", None, got.G.nodes, DOMAIN got.G.edges,
                        {<<e[1], e>> : e \in DOMAIN got.G.edges}
                            \cup {<<e[2], e>> : e \in DOMAIN got.G.edges})

NextEditor ==
    \/ MainWindow_add_node
    \/ add_edge_between_selected \/ edit_selected_edge \/ remove_selected_items
    \/ clear_graph \/ load_graph

SpecEditor == GraphInit /\ [][NextEditor]_vars

(***************************************************************************)
(* Properties                                                              *)
(***************************************************************************)
REq(r1, r2) == RIsZero(RSub(r1, r2))

Demands == 1..Len(demands)

Quantity == [i \in Demands |-> R(demands[i][3])]

\* the flow the path weights of load put on edge e
loaded(e) ==
    sum_over(Demands,
             [i \in Demands |-> sum_over({p \in od_paths(i) : e \in path_edges(p)}, load[i])])

Feasible ==
    /\ DOMAIN load = Demands
    /\ \A i \in Demands :
         /\ DOMAIN load[i] = od_paths(i)
         /\ \A p \in od_paths(i) : RNonNeg(load[i][p])
         /\ REq(sum_over(od_paths(i), load[i]),
                IF od_paths(i) # {} THEN Quantity[i] ELSE Zero)
    /\ \A e \in Edges : REq(f[e], loaded(e))

\* C1: the initial AON vector, every iterate after an update and the vector
\* returned are a non-negative combination of o-d path loadings in which each
\* demand's paths carry q in total when d is reachable from o and 0 when not
C1_Feasibility == pc \in {"loop", "search", "finish", "done"} => Feasible

\* a call has returned a flow split over two paths of one demand
C1_Witness ==
    /\ pc = "done"
    /\ it >= 1
    /\ \E i \in Demands : \E p, p2 \in od_paths(i) :
         p # p2 /\ RPos(load[i][p]) /\ RPos(load[i][p2])

\* the updates of f the current call has made: its returns to the head of the loop
FlowUpdates == Cardinality({i \in 2..Len(trace) : trace[i][1] = "loop"})

\* the passes of the for loop the current call has begun and not left by an exception
Passes ==
    Cardinality({i \in 1..Len(trace) : trace[i][1] = "search"})
      + (IF term = "Converged" THEN 1 ELSE 0)

\* the steps the call can still take, at most
Measure ==
    CASE pc = "loop" -> 3 * (max_iter - it) + 2
      [] pc = "search" -> 3 * (max_iter - it) + 1
      [] pc = "finish" -> 1
      [] OTHER -> 0

\* C2: a call makes at most max_iter passes and updates and every step of it
\* brings the return nearer; the loop is left as Converged or, after exactly max_iter
\* updates, as MaxIterReached, and then the call returns f without an exception
C2_Termination ==
    /\ [](/\ FlowUpdates <= max_iter
          /\ Passes <= max_iter
          /\ pc \in {"loop", "search", "finish", "done"} => FlowUpdates = it
          /\ pc = "search" => it < max_iter
          /\ pc \in {"finish", "done"} => term \in {"Converged", "MaxIterReached"}
          /\ term = "MaxIterReached" => FlowUpdates = max_iter
          /\ pc = "done" => exc = "" /\ \A e \in Edges : result[e] = f[e])
    /\ [][(pc \in {"loop", "search", "finish"}) => (Measure' >= 0 /\ Measure' < Measure)]_vars

\* a budget of two passes is used up and the call returns
C2_Witness ==
    /\ pc = "done"
    /\ term = "MaxIterReached"
    /\ max_iter > 1
    /\ FlowUpdates = max_iter

\* C3: when the call has returned, every edge stores its component of the final
\* vector and the mapping returned has one entry per edge, the stored flow
C3_WriteBack ==
    pc = "done" =>
        /\ term \in {"Converged", "MaxIterReached"}
        /\ DOMAIN result = Edges
        /\ \A e \in Edges : G.edges[e].flow = f[e] /\ result[e] = G.edges[e].flow

\* a converged call that made an update has stored a flow that is not whole
C3_Witness ==
    /\ pc = "done"
    /\ term = "Converged"
    /\ it >= 1
    /\ \E e \in Edges : RPos(G.edges[e].flow) /\ ~IsInt(G.edges[e].flow)

NormBelow(dv) == RLess(dot(dv, dv), RMul(tol, tol))

\* C4: a pass whose direction has norm below tol leaves the loop as Converged
\* with f, the brackets of the line search and the count of updates untouched;
\* the loop is left before max_iter updates only so; what is written back is the
\* iterate the pass started with
C4_NormTest ==
    /\ [][/\ (pc = "loop" /\ it < max_iter /\ pc' # "raised" /\ NormBelow(d')) =>
               /\ pc' = "finish" /\ term' = "Converged"
               /\ f' = f /\ brackets' = brackets /\ it' = it
          /\ (pc = "loop" /\ it < max_iter /\ pc' = "finish") =>
               NormBelow(d') /\ term' = "Converged"
          /\ (pc = "finish" /\ term = "Converged") =>
               \A e \in Edges : G'.edges[e].flow = f[e] /\ result'[e] = f[e]]_vars
    /\ [](pc = "done" /\ term = "Converged" =>
            /\ trace[Len(trace) - 2][1] = "loop"
            /\ result = trace[Len(trace) - 2][2])

\* a call converged, before its budget was used up, on a direction that is not zero
C4_Witness ==
    /\ pc = "done"
    /\ term = "Converged"
    /\ it < max_iter
    /\ \E e \in Edges : ~RIsZero(d[e])

\* C5: a call first stores flow 0 on every edge, whether or not a cost then
\* raises, and takes its first iterate from aon on the costs at zero flow; a
\* call made on the flows an earlier call left returns what that call returned
C5_Reset ==
    /\ [][runs' = runs + 1 =>
            /\ \A e \in Edges : G'.edges[e].flow = Zero
            /\ pc' = "loop" =>
                 /\ f' = aon([e \in Edges |-> cost(G.edges[e].cost_func, Zero).v])
                 /\ trace' = <<<<"loop", f'>>>>]_vars
    /\ [](runs >= 2 /\ pc = "done" => result = prev.result)

\* a second call, begun on stored flows that are not zero, has returned
C5_Witness ==
    /\ runs = 2
    /\ pc = "done"
    /\ it >= 1
    /\ \E e \in Edges : RPos(prev.result[e])

has_path(t) == t[1] \in h_nodes /\ t[2] \in h_nodes /\ simple_paths(t[1], t[2]) # {}

\* C7: aon loads every demand with a path on one path of least cost and no
\* other demand; an edge carries the sum of q over the demands whose path holds
\* it, 0 when none does, and never less than 0
C7_AonCorrect ==
    pc = "returned" =>
        /\ \A i \in Demands :
             IF has_path(demands[i])
             THEN /\ routes[i] \in od_paths(i)
                  /\ \A p \in od_paths(i) :
                       RLeq(path_weight(routes[i], c), path_weight(p, c))
             ELSE routes[i] = <<>>
        /\ \A e \in Edges :
             /\ REq(y[e], sum_over({i \in Demands : e \in path_edges(routes[i])}, Quantity))
             /\ RNonNeg(y[e])
             /\ (\A i \in Demands : e \notin path_edges(routes[i])) => y[e] = Zero

\* two demands accumulate on an edge they share while another edge stays empty
C7_Witness ==
    /\ pc = "returned"
    /\ Len(demands) = 2
    /\ \E e \in Edges :
         /\ \A i \in Demands : e \in path_edges(routes[i])
         /\ REq(y[e], RAdd(Quantity[1], Quantity[2]))
         /\ RPos(Quantity[1]) /\ RPos(Quantity[2])
    /\ \E e \in Edges : y[e] = Zero

\* the demands of the call that have a path
Routable == SelectSeq(demands, has_path)

\* C8: a demand without a path, because none exists or because an end of it is
\* no node of the graph, is on no edge; aon returns what it returns for the
\* other demands alone
C8_Unreachable ==
    pc = "returned" =>
        /\ \A i \in Demands : ~has_path(demands[i]) => routes[i] = <<>>
        /\ \A e \in Edges :
             REq(y[e],
                 sum_over({i \in 1..Len(Routable) :
                              e \in path_edges(chosen(Routable, c)[i])},
                          [i \in 1..Len(Routable) |-> R(Routable[i][3])]))

\* a demand without a path comes before one that aon loads
C8_Witness ==
    /\ pc = "returned"
    /\ Len(demands) = 2
    /\ ~has_path(demands[1]) /\ demands[1][3] > 0
    /\ has_path(demands[2])
    /\ \E e \in Edges : RPos(y[e])

\* the text compile_cost_expr parses
ParsedText ==
    IF expr = None \/ Strip(expr) = "" THEN "1.0" ELSE Strip(expr)

ListedNames == {"f", "sqrt", "log", "exp", "sin", "cos", "tan", "abs", "min", "max", "pi", "e"}

listed_node(n) ==
    CASE n[1] = "Constant" -> n[2].t = "num"
      [] n[1] = "Name" -> n[2] \in ListedNames
      [] n[1] \in {"Expression", "BinOp", "UnaryOp", "Call", "Tuple", "Load",
                   "Add", "Sub", "Mult", "Div", "Mod", "Pow", "UAdd", "USub"} -> TRUE
      [] OTHER -> FALSE

Unlisted ==
    {i \in 1..Len(walk(Expression(ParseTable[ParsedText]))) :
        ~listed_node(walk(Expression(ParseTable[ParsedText]))[i])}

\* C9: compile_cost_expr returns a function only for a tree of numeric literals,
\* the listed names, + - * / % **, unary + and -, calls and tuples; for any
\* other tree it raises UnsafeExpression with the construct or the name
C9_Whitelist ==
    (compiled # <<>> /\ ParsedText \in DOMAIN ParseTable) =>
        IF Unlisted = {} THEN compiled.exc = ""
        ELSE /\ compiled.exc = "UnsafeExpression"
             /\ compiled.msg[1] \in {"Disallowed expression element", "Unknown name"}

\* a string literal has been compiled into a cost function
C9_StringAccepted == expr = "'x'" /\ compiled # <<>> /\ compiled.exc = ""

\* C10: the cost function of an accepted expression returns a number at every
\* flow that is not negative
C10_CostTotal ==
    (compiled # <<>> /\ compiled.exc = "" /\ cost_ret # <<>> /\ RNonNeg(cost_arg)) =>
        cost_ret.t = "num"

\* the cost function of "1/f" has raised at flow 0
C10_RaisedAtZero ==
    /\ expr = "1/f"
    /\ compiled # <<>> /\ compiled.exc = ""
    /\ cost_arg = Zero
    /\ cost_ret = PyExc("ZeroDivisionError")
(***************************************************************************)
(* TrafficGraph and the editor: properties                                 *)
(***************************************************************************)
\* the pair and the text of a call that names an edge and an expression
Replaces == {"add_edge", "set_edge_expr", "add_edge_between_selected", "edit_selected_edge"}

OtherEdgesKept(e) ==
    /\ DOMAIN G'.edges \ {e} = DOMAIN G.edges \ {e}
    /\ \A e2 \in DOMAIN G.edges \ {e} : G'.edges[e2] = G.edges[e2]

\* C11: add_edge with an expression that does not compile raises
\* UnsafeExpression and leaves the graph as it was; with one that compiles the
\* edge (u, v) is there afterwards with that text, its cost function and flow 0,
\* and every other edge is as before
C11_AddEdge ==
    [][(op'[1] = "add_edge") =>
          IF compile_cost_expr(op'[3]).exc # ""
          THEN raised' = "UnsafeExpression" /\ G' = G
          ELSE /\ raised' = ""
               /\ op'[2] \in DOMAIN G'.edges
               /\ G'.edges[op'[2]] = [func_expr |-> op'[3],
                                      cost_func |-> compile_cost_expr(op'[3]).cost_func,
                                      flow |-> Zero]
               /\ OtherEdgesKept(op'[2])]_vars

\* add_edge with a text that is not an expression has left by SyntaxError
C11_SyntaxErrorRaised ==
    op[1] = "add_edge" /\ op[3] = "1 +" /\ raised = "SyntaxError"

\* C12: a replacement of the expression of an existing edge that does not
\* compile leaves the edge (and the graph) as it was, and in every state the cost
\* function of every edge is the one its expression text compiles to
C12_NoPartialReplace ==
    /\ [](\A e \in Edges :
             /\ compile_cost_expr(G.edges[e].func_expr).exc = ""
             /\ G.edges[e].cost_func = compile_cost_expr(G.edges[e].func_expr).cost_func)
    /\ [][(op'[1] \in Replaces /\ op'[2] \in Edges
             /\ compile_cost_expr(op'[3]).exc # "") => G' = G]_vars

\* set_edge_expr on an edge of the graph has raised on a text that does not compile
C12_Witness ==
    /\ op[1] = "set_edge_expr" /\ op[2] \in Edges
    /\ raised \in {"UnsafeExpression", "SyntaxError"}
    /\ G.edges[op[2]].func_expr # op[3]

\* C13: a set_edge_expr that returns changes the text and the cost function of
\* its edge only: every flow, every other edge, the nodes, the edge set and the
\* positions are as before
C13_SetExprFrame ==
    [][(op'[1] = "set_edge_expr" /\ raised' = "") =>
          /\ G'.nodes = G.nodes /\ pos' = pos
          /\ OtherEdgesKept(op'[2])
          /\ op'[2] \in Edges /\ op'[2] \in DOMAIN G'.edges
          /\ G'.edges[op'[2]].flow = G.edges[op'[2]].flow
          /\ G'.edges[op'[2]].func_expr = op'[3]]_vars

\* set_edge_expr has put a new text on an edge that carries flow
C13_Witness ==
    /\ op[1] = "set_edge_expr" /\ raised = ""
    /\ RPos(G.edges[op[2]].flow)
    /\ G.edges[op[2]].func_expr = "2"

NotFound == {"KeyError", "NetworkXError"}

\* the calls of TrafficGraph that name an edge or a node the graph does not have
NamesMissing ==
    \/ op'[1] \in {"set_flow", "get_cost"} /\ op'[2] \notin Edges
    \/ op'[1] = "set_edge_expr" /\ op'[2] \notin Edges /\ compile_cost_expr(op'[3]).exc = ""
    \/ op'[1] \in {"remove_node", "set_node_pos"} /\ op'[2] \notin G.nodes
    \/ op'[1] = "add_edge" /\ (op'[2][1] \notin G.nodes \/ op'[2][2] \notin G.nodes)
                           /\ compile_cost_expr(op'[3]).exc = ""

\* C14: a call of TrafficGraph that names an edge or a node that is not in the
\* graph raises a not-found error and leaves the graph as it was
C14_NotFound ==
    [][NamesMissing => (raised' \in NotFound /\ G' = G /\ pos' = pos)]_vars

\* add_edge has returned with an endpoint in the graph that add_node never added
C14_NodeCreated ==
    /\ op[1] = "add_edge" /\ raised = ""
    /\ \E n \in G.nodes : n \notin DOMAIN pos /\ n \in {op[2][1], op[2][2]}

\* C15: get_cost(u, v, flow) returns the cost function of (u, v) at the flow
\* passed, also at 0 and whatever the stored flow is, raises what that
\* evaluation raises, and leaves graph and positions as they were
C15_GetCostPure ==
    [][(op'[1] = "get_cost" /\ op'[2] \in Edges) =>
          /\ G' = G /\ pos' = pos
          /\ op'[3] # PyNone =>
               LET v == cost(G.edges[op'[2]].cost_func, op'[3]) IN
               IF v.t = "exc" THEN raised' = v.kind
               ELSE raised' = "" /\ ret' = v.v]_vars

\* get_cost at flow 0 has returned 0 on an edge of cost f that stores a flow
C15_Witness ==
    /\ op[1] = "get_cost" /\ op[2] \in Edges /\ raised = ""
    /\ op[3] = Zero /\ ret = Zero
    /\ RPos(G.edges[op[2]].flow)
    /\ G.edges[op[2]].func_expr = "f"

\* the cost of a route at the flows stored on its edges
route_cost(p) ==
    sum_over(path_edges(p), [e \in Edges |-> cost(G.edges[e].cost_func, G.edges[e].flow).v])

\* C16: for every pair of the demand list joined by a path, the travel time
\* reported is the least sum, over the paths from o to d, of the edge costs at
\* the flows stored on the edges (costs >= 0), and it is the sum along one of them
C16_TravelTimes ==
    (op[1] = "compute_od_travel_times" /\ raised = "") =>
        \A i \in 1..Len(op[2]) :
            LET od == <<op[2][i][1], op[2][i][2]>>
                P == simple_paths(od[1], od[2])
            IN  P # {} =>
                  /\ od \in DOMAIN ret
                  /\ ret[od].t = "num"
                  /\ \E p \in P : REq(ret[od].v, route_cost(p))
                  /\ \A p \in P : RLeq(ret[od].v, route_cost(p))

\* the travel time from 1 to 2 is the cost of a route at stored flows that are
\* not 0, where the direct edge at flow 0 would cost 0
C16_Witness ==
    /\ op[1] = "compute_od_travel_times" /\ raised = ""
    /\ <<1, 2>> \in Edges /\ <<1, 2>> \in DOMAIN ret
    /\ G.edges[<<1, 2>>].func_expr = "f"
    /\ RPos(G.edges[<<1, 2>>].flow)
    /\ ret[<<1, 2>>].t = "num" /\ RPos(ret[<<1, 2>>].v)
    /\ Cardinality(simple_paths(1, 2)) > 1

\* a path from o to t in the network: both are nodes, and o = t or edges lead
\* from o to t
Connected(o, t) ==
    /\ o \in G.nodes /\ t \in G.nodes
    /\ o = t \/ simple_paths(o, t) # {}

\* C17: compute_od_travel_times returns an entry for every pair of the demand
\* list, and the entry is None exactly when the network has no path from o to d
C17_AbsentIffNoPath ==
    (op[1] = "compute_od_travel_times" /\ raised = "") =>
        /\ DOMAIN ret = {<<op[2][i][1], op[2][i][2]>> : i \in 1..Len(op[2])}
        /\ \A od \in DOMAIN ret : (ret[od] = PyNone) <=> ~Connected(od[1], od[2])

\* a pair o = d on a node of the network without edges has got None
C17_IsolatedAbsent ==
    /\ op[1] = "compute_od_travel_times" /\ raised = ""
    /\ \E od \in DOMAIN ret :
         /\ od[1] = od[2] /\ od[1] \in G.nodes
         /\ od[1] \notin h_nodes
         /\ ret[od] = PyNone

\* C18: no step of frank_wolfe_assignment changes the nodes, the edge set, or
\* the expression text or cost function of an edge
C18_SolverFrame ==
    [][/\ G'.nodes = G.nodes
       /\ DOMAIN G'.edges = DOMAIN G.edges
       /\ \A e \in DOMAIN G.edges :
            /\ G'.edges[e].func_expr = G.edges[e].func_expr
            /\ G'.edges[e].cost_func = G.edges[e].cost_func]_vars

\* a call has returned after an update of f and has stored a flow
C18_Witness ==
    /\ pc = "done" /\ it > 0
    /\ \E e \in Edges : RPos(G.edges[e].flow)

\* the pair a call on one edge names
NamedPair == IF op'[1] = "remove_selected_items" THEN op'[3] ELSE op'[2]

\* C19: every edge joins two different nodes (one edge per ordered pair: the
\* edges are keyed by the pair), and a call that creates, edits or removes
\* (u, v) leaves (v, u) as it was
C19_Edges ==
    [][/\ \A e \in DOMAIN G'.edges : e[1] # e[2]
       /\ (op'[1] \in Replaces \/ (op'[1] = "remove_selected_items" /\ op'[2] = "edge")) =>
            LET r == <<NamedPair[2], NamedPair[1]>> IN
            r # NamedPair =>
              /\ r \in DOMAIN G'.edges <=> r \in DOMAIN G.edges
              /\ r \in DOMAIN G.edges => G'.edges[r] = G.edges[r]]_vars

\* the graph has an edge from a node to itself
C19_SelfLoop == \E e \in Edges : e[1] = e[2]

\* the calls that write flows: the solver and the set_flow it writes with
Writers == {"frank_wolfe_assignment", "set_flow"}

\* the calls that put a flow to 0: the reset, and those that create edges
Zeroers == {"reset_flows", "add_edge", "add_edge_between_selected",
            "load_from_json", "load_from_xml"}

TwoRoutes ==
    /\ Edges = CandidateEdges
    /\ G.edges[<<1, 2>>].func_expr = "2"
    /\ G.edges[<<1, 3>>].func_expr = "1"
    /\ G.edges[<<3, 2>>].func_expr = "1"
    /\ Len(demands) = 1 /\ demands[1][1] = 1 /\ demands[1][2] = 2

\* C22: on two routes of equal constant cost and one demand D between their
\* ends, a call with max_iter >= 1 never runs a line search, never raises and
\* never ends by MaxIterReached: it ends Converged in its first pass, and the
\* flows leaving the origin and the flows entering the destination sum to D
C22_EqualRoutes ==
    (TwoRoutes /\ max_iter >= 1) =>
        /\ term # "MaxIterReached"
        /\ pc \notin {"search", "raised"}
        /\ pc = "done" =>
             /\ term = "Converged" /\ it = 0
             /\ Passes = 1
             /\ REq(RAdd(G.edges[<<1, 2>>].flow, G.edges[<<1, 3>>].flow), R(demands[1][3]))
             /\ REq(RAdd(G.edges[<<1, 2>>].flow, G.edges[<<3, 2>>].flow), R(demands[1][3]))

\* a call on the two routes with a demand > 0 has returned Converged
C22_Witness ==
    /\ TwoRoutes /\ max_iter >= 1 /\ demands[1][3] > 0
    /\ pc = "done" /\ term = "Converged"
    /\ \E e \in Edges : RPos(G.edges[e].flow)

\* C23: compile_cost_expr of "", of blanks and of None returns what
\* compile_cost_expr("1.0") returns, and the cost function returns 1 at every flow
C23_BlankIsOne ==
    (compiled # <<>> /\ expr \in {"", "   ", None}) =>
        /\ compiled.exc = ""
        /\ compiled = compile_cost_expr("1.0")
        /\ cost_ret # <<>> => cost_ret = PyNum(One)

\* the cost function compiled from blanks has returned 1 at a flow that is not 0
C23_Witness ==
    /\ expr = "   " /\ compiled # <<>> /\ compiled.exc = ""
    /\ cost_arg # Zero
    /\ cost_ret = PyNum(One)

\* the interior points of the bracket <<lo, hi>>
c1_of(br) == RSub(br[2], RMul(phi, RSub(br[2], br[1])))

c2_of(br) == RAdd(br[1], RMul(phi, RSub(br[2], br[1])))

\* the bracket a round makes of br with the objectives of the call in hand
kept_side(br) ==
    IF RLess(objective(c1_of(br)).v, objective(c2_of(br)).v)
    THEN <<br[1], c2_of(br)>> ELSE <<c1_of(br), br[2]>>

\* C24: a line search that returns has run GoldenRounds rounds from the bracket
\* [0, 1]; every round keeps the side whose interior point has the lower
\* objective, the bracket after round i has 0 <= a < b <= 1 and width phi^i,
\* and the step taken is the midpoint of the last bracket, within [0, 1].
C24_GoldenRounds ==
    [][(pc = "search" /\ pc' = "loop") =>
         /\ Len(brackets') = GoldenRounds + 1
         /\ brackets'[1] = <<Zero, One>>
         /\ \A i \in 1..GoldenRounds :
              /\ brackets'[i + 1] = kept_side(brackets'[i])
              /\ RLeq(Zero, brackets'[i + 1][1])
              /\ RLess(brackets'[i + 1][1], brackets'[i + 1][2])
              /\ RLeq(brackets'[i + 1][2], One)
              /\ REq(RSub(brackets'[i + 1][2], brackets'[i + 1][1]), RPowN(phi, i))
         /\ <<a', b'>> = brackets'[GoldenRounds + 1]
         /\ f' = vec_add(f, vec_scale(RHalf(RAdd(a', b')), d))
         /\ RLeq(Zero, RHalf(RAdd(a', b'))) /\ RLeq(RHalf(RAdd(a', b')), One)]_vars

\* a search has returned with both ends of the bracket moved
C24_Witness ==
    /\ pc = "loop" /\ it >= 1
    /\ Len(brackets) = GoldenRounds + 1
    /\ RPos(a) /\ RLess(b, One)

\* the flow vector objective(alpha) evaluates the costs at
trial_at(alpha) == vec_add(f, vec_scale(alpha, d))

NonNegative(v) == \A e \in Edges : RNonNeg(v[e])

\* the rounds of the search just made that evaluated their interior points
ProbedRounds(seen) == 1..(IF Len(seen) > GoldenRounds THEN GoldenRounds ELSE Len(seen))

\* C25: every flow vector the costs are evaluated at during a call is >= 0 on
\* every edge: the zero vector of the start, every iterate f, and both interior
\* trial points f + alpha*d of every round of every line search.
C25_FlowsNonNegative ==
    [][/\ NonNegative(zeros)
       /\ (pc' \in {"loop", "search", "finish"}) => NonNegative(f')
       /\ (pc = "search") =>
            \A i \in ProbedRounds(brackets') :
                /\ NonNegative(trial_at(c1_of(brackets'[i])))
                /\ NonNegative(trial_at(c2_of(brackets'[i])))]_vars

\* a search has returned whose direction takes flow off an edge
C25_Witness ==
    /\ pc = "loop" /\ it >= 1
    /\ Len(brackets) = GoldenRounds + 1
    /\ \E e \in Edges : RPos(RNeg(d[e]))
    /\ \E e \in Edges : RPos(f[e])

\* the update of a pass: a line search has returned
Updated == pc = "search" /\ pc' = "loop"

stored(g) == [e \in DOMAIN g.edges |-> g.edges[e].flow]

AllZero(v) == \A e \in DOMAIN v : v[e] = Zero

\* C27: a call writes the stored flows twice, 0 on every edge when it starts
\* and the final vector when it returns, and no other step of it changes the
\* graph; from the start to the write-back, and after a call that a raising
\* cost has ended, every stored flow is 0.
C27_TwoWrites ==
    [][/\ (pc' \in {"loop", "search", "finish", "raised"}) => AllZero(stored(G'))
       /\ (pc' = "done") => (pc = "finish" /\ stored(G') = f)
       /\ (G' # G) => \/ pc \in {"idle", "done", "raised"} /\ pc' \in {"loop", "raised"}
                      \/ pc = "finish" /\ pc' = "done"]_vars

\* a cost has raised at an iterate that is not 0, in a call after one that
\* had raised as well
C27_Witness ==
    /\ pc = "raised" /\ runs = 2
    /\ f # NoVec /\ \E e \in Edges : RPos(f[e])
    /\ AllZero(stored(G))

\* the edges that carry flow in the vector v
support(v) == {e \in Edges : RPos(v[e])}

\* C28: within a call the set of edges with positive flow never shrinks: no
\* step after the start takes an edge out of it, and after an update it holds
\* every edge that had flow before and every edge the AON target y loads.
C28_SupportGrows ==
    [][/\ (pc \in {"loop", "search", "finish"}) => support(f) \subseteq support(f')
       /\ Updated => (support(f) \cup support(y)) \subseteq support(f')]_vars

\* an update has kept an edge the target does not load and has loaded an edge
\* that had no flow
C28_Witness ==
    /\ pc = "loop" /\ it >= 1
    /\ \E e \in support(f) : y[e] = Zero
    /\ \E e \in support(f) : RPos(y[e]) /\ REq(d[e], y[e])

(***************************************************************************)
(* The graph and the editor: further properties                            *)
(***************************************************************************)
not_self(t) == t[1] # t[2]

\* C30: for a demand with o = d on a node of the network, with or without
\* incident edges, compute_od_travel_times reports the travel time 0, not None,
\* and the AON loading is the one of the demand list without that demand.
C30_SelfDemand ==
    /\ (op[1] = "compute_od_travel_times" /\ raised = "") =>
          \A i \in 1..Len(op[2]) :
              (op[2][i][1] = op[2][i][2] /\ op[2][i][1] \in G.nodes) =>
                  ret[<<op[2][i][1], op[2][i][2]>>] = PyNum(Zero)
    /\ (op[1] = "frank_wolfe_assignment" /\ raised = "") =>
          ret = load_paths(SelectSeq(op[2], not_self),
                           chosen(SelectSeq(op[2], not_self), costs_at(zeros).c))

\* the travel time of a demand from the last node to itself is None on a
\* network that has edges
C30_NoneForSelf ==
    /\ op[1] = "compute_od_travel_times" /\ raised = ""
    /\ NumNodes \in G.nodes /\ Edges # {}
    /\ <<NumNodes, NumNodes>> \in DOMAIN ret
    /\ ret[<<NumNodes, NumNodes>>] = PyNone

\* where C30 holds: the node of the demand has an incident edge
C30_SelfOnEdge ==
    /\ (op[1] = "compute_od_travel_times" /\ raised = "") =>
          \A i \in 1..Len(op[2]) :
              (op[2][i][1] = op[2][i][2] /\ op[2][i][1] \in h_nodes) =>
                  ret[<<op[2][i][1], op[2][i][2]>>] = PyNum(Zero)
    /\ (op[1] = "frank_wolfe_assignment" /\ raised = "") =>
          ret = load_paths(SelectSeq(op[2], not_self),
                           chosen(SelectSeq(op[2], not_self), costs_at(zeros).c))

\* C21: in every sequence of add-node and remove operations of the window the
\* nodes a handler leaves in the graph keep their ids, one node item per id,
\* and the id a new node gets is one that no node of the network holds or has
\* held before, removed nodes included.
C21_FreshIds ==
    [][/\ (op'[1] = "MainWindow.add_node") =>
            /\ op'[2] \notin held
            /\ G'.nodes = G.nodes \cup {op'[2]} /\ node_items' = node_items \cup {op'[2]}
       /\ (op'[1] = "remove_selected_items") =>
            /\ G'.nodes \subseteq G.nodes /\ node_items' \subseteq node_items
            /\ op'[2] = "node" => G'.nodes = G.nodes \ {op'[3]}]_vars

\* the last node id has been given out after fewer add-node calls than ids:
\* it is the id of a node of the first graph that was removed
C21_IdReused ==
    /\ op[1] = "MainWindow.add_node"
    /\ op[2] = NumNodes /\ edits < NumNodes
    /\ op[2] \in held

\* where C21 holds: the id of a new node is not the id of a node of the graph
C21_NotInGraph ==
    [][(op'[1] = "MainWindow.add_node") =>
            /\ op'[2] \notin G.nodes
            /\ G'.nodes = G.nodes \cup {op'[2]} /\ node_items' = node_items \cup {op'[2]}]_vars

\* the items of the window agree with the graph
ItemsConsistent ==
    /\ edge_items = Edges
    /\ node_items = G.nodes
    /\ \A e \in edge_items : <<e[1], e>> \in incident_edges /\ <<e[2], e>> \in incident_edges

\* C29: after every sequence of handlers of the window (add edge, remove edge,
\* remove node, clear graph, load graph, also a load that fails part-way or
\* names a format that is not supported) the keys of edge_items are the edges
\* of the graph, the keys of node_items are its nodes, and every edge item is
\* listed in incident_edges at both of its ends.
C29_ItemsConsistent == pc = "edit" => ItemsConsistent

\* a load has ended part-way and the graph has nodes the window has no item for
C29_LoadFailed ==
    /\ op[1] = "load_graph"
    /\ G.nodes # {} /\ node_items = {}

\* the load of the last step was ended by an exception of the loader
LoadRaised == op'[1] = "load_graph" /\ op'[2] # "other" /\ load_from(op'[3]).raised # ""

\* where C29 holds: every handler keeps the items in agreement with the graph,
\* but for a load that an exception ends part-way
C29_UnlessLoadRaised ==
    [][(ItemsConsistent /\ ~LoadRaised) => ItemsConsistent']_vars
=============================================================================
